---- MODULE Spec2Model ----
(***************************************************************************)
(* Model of rstest's attribute-argument parser (src/src/parse.rs).         *)
(*                                                                         *)
(* The parser is a pure function from a token stream to a directive tree.  *)
(* A state of the model is one run of the test harness parse_meta::<T>:   *)
(* a token stream `input`, the parser `parser` that was applied to it and  *)
(* the `result` of syn::parse2::<T>(input).                                *)
(*                                                                         *)
(* Tokens are syn-level tokens.  The value of a parsed expression, type or *)
(* identifier is the token slice it covers, so that "textually equal" is   *)
(* equality of values.                                                     *)
(***************************************************************************)
EXTENDS Integers, Sequences, FiniteSets, TLC

VARIABLES
    input,                      \* the token stream handed to the parser
    use_proc_macro_diagnostic,  \* the cfg flag the crate is built with
    parser,                     \* "none", or the type T of parse2::<T>(input)
    result                      \* the result (or panic) of that parse

vars == <<input, use_proc_macro_diagnostic, parser, result>>

-----------------------------------------------------------------------------
(* Tokens                                                                  *)

Tok(k, v, s) == [k |-> k, v |-> v, s |-> s]

Ident(n) == Tok("ident", n, <<>>)

Punct(p) == Tok("punct", p, <<>>)

LitInt(n) == Tok("lit", n, <<>>)

\* a string literal; s is the token stream its contents lex to
LitStr(s) == Tok("str", "", s)

Paren(s) == Tok("paren", "", s)

Bracket(s) == Tok("bracket", "", s)

Comma == Punct(",")

Colon2 == Punct("::")

FatArrow == Punct("=>")

Lt == Punct("<")

Gt == Punct(">")

Eq == Punct("=")

IsIdent(t) == t.k = "ident"

IsLit(t) == t.k \in {"lit", "str"}

IsParen(t) == t.k = "paren"

IsBracket(t) == t.k = "bracket"

\* a punctuation token made of more than one proc_macro2 Punct
IsMultiPunct(t) == t.k = "punct" /\ t.v \in {"::", "=>"}

Rest(ts, n) == SubSeq(ts, n + 1, Len(ts))

\* ParseBuffer::peek(Token![p])
Peek(ts, p) == ts # <<>> /\ ts[1] = Punct(p)

\* peek(Token![=]): a single-character token also matches the first
\* character of a joint punctuation, here `=>`
PeekEq(ts) == ts # <<>> /\ ts[1] \in {Eq, FatArrow}

\* ParseBuffer::peek2(Token![p]): skips ONE token tree; a multi-character
\* punctuation is several token trees, so nothing is found behind it
Peek2(ts, p) == Len(ts) >= 2 /\ ~IsMultiPunct(ts[1]) /\ ts[2] = Punct(p)

Peek2Eq(ts) == Len(ts) >= 2 /\ ~IsMultiPunct(ts[1]) /\ ts[2] \in {Eq, FatArrow}

-----------------------------------------------------------------------------
(* Results: Result<T> of syn, plus the panic a parse can end in            *)

NoVal == [t |-> "none"]

Ok(v, rest) == [st |-> "ok", v |-> v, rest |-> rest, msg |-> ""]

Err(m) == [st |-> "err", v |-> NoVal, rest |-> <<>>, msg |-> m]

Panic(m) == [st |-> "panic", v |-> NoVal, rest |-> <<>>, msg |-> m]

IsOk(r) == r.st = "ok"

\* let v = <value>; <K>
Let(v, K(_)) == K(v)

\* let r = <result>?; <K>: anything but Ok leaves the enclosing parser
AndThen(r, K(_)) == IF IsOk(r) THEN K(r) ELSE r

List(items) == [t |-> "List", items |-> items]

None == [t |-> "None"]

Some(v) == [t |-> "Some", v |-> v]

IdentV(tok) == [t |-> "Ident", name |-> tok.v]

ExprV(toks) == [t |-> "Expr", toks |-> toks]

TypeV(toks) == [t |-> "Type", toks |-> toks]

\* input.parse::<Ident>()
ParseIdent(ts) ==
    IF ts # <<>> /\ IsIdent(ts[1])
    THEN Ok(IdentV(ts[1]), Tail(ts))
    ELSE Err("expected identifier")

\* input.parse::<Token![p]>()
ParseToken(ts, p) ==
    IF Peek(ts, p) THEN Ok(NoVal, Tail(ts)) ELSE Err("expected token")

\* syn::parenthesized!(content in input) and syn::bracketed!(content in input)
ParseGroup(ts, delim) ==
    IF ts # <<>> /\ ts[1].k = delim
    THEN Ok([t |-> "Group", content |-> ts[1].s], Tail(ts))
    ELSE Err(IF delim = "paren" THEN "expected parentheses"
             ELSE "expected square brackets")

\* Parse2 with the bug of not looking at what the parser left unconsumed
Parse2_Lenient(r) == IF IsOk(r) THEN Ok(r.v, <<>>) ELSE r

\* syn::parse2::<T>: the parser's result, an error when tokens are left
Parse2(r) == IF IsOk(r) /\ r.rest # <<>> THEN Err("unexpected token") ELSE r

-----------------------------------------------------------------------------
(* syn::Expr, restricted to the tokens of the model.  An expression is     *)
(*   unary ('=' expr)?            unary := atom (call-args | index)*       *)
(*   atom := literal | path | '(' exprs ')' | '[' exprs ']'                *)
(* Expressions are parsed only inside groups and string literals; the      *)
(* inputs of the model put no `<` or `>` there.  Each operator gives the   *)
(* number of tokens the expression covers, or -1 when syn rejects it.      *)

RECURSIVE ExprLen(_), ExprListOk(_), ExprPathLen(_, _), PostfixLen(_, _)

\* Path::parse_helper after the identifier at position n
ExprPathLen(ts, n) ==
    IF Len(ts) > n /\ ts[n + 1] = Colon2
    THEN IF Len(ts) >= n + 2 /\ IsIdent(ts[n + 2])
         THEN ExprPathLen(ts, n + 2)
         ELSE -1
    ELSE n

\* Punctuated::<Expr, Token![,]>::parse_terminated succeeds on s
ExprListOk(s) ==
    \/ s = <<>>
    \/ Let(ExprLen(s), LAMBDA n :
          /\ n >= 0
          /\ \/ n = Len(s)
             \/ s[n + 1] = Comma /\ ExprListOk(Rest(s, n + 1)))

\* trailers of an expression that covers n tokens: calls and indexing
PostfixLen(ts, n) ==
    IF Len(ts) > n /\ IsParen(ts[n + 1])
    THEN IF ExprListOk(ts[n + 1].s) THEN PostfixLen(ts, n + 1) ELSE -1
    ELSE IF Len(ts) > n /\ IsBracket(ts[n + 1])
    THEN IF ts[n + 1].s # <<>> /\ ExprLen(ts[n + 1].s) = Len(ts[n + 1].s)
         THEN PostfixLen(ts, n + 1)
         ELSE -1
    ELSE n

AtomLen(ts) ==
    IF ts = <<>> THEN -1
    ELSE IF IsLit(ts[1]) THEN 1
    ELSE IF IsParen(ts[1]) \/ IsBracket(ts[1])
    THEN IF ExprListOk(ts[1].s) THEN 1 ELSE -1
    ELSE IF IsIdent(ts[1]) THEN ExprPathLen(ts, 1)
    ELSE IF ts[1] = Colon2 /\ Len(ts) >= 2 /\ IsIdent(ts[2]) THEN ExprPathLen(ts, 2)
    ELSE -1

UnaryLen(ts) ==
    Let(AtomLen(ts), LAMBDA a : IF a < 0 THEN -1 ELSE PostfixLen(ts, a))

ExprLen(ts) ==
    Let(UnaryLen(ts), LAMBDA u :
        IF u < 0 THEN -1
        ELSE IF Len(ts) > u /\ ts[u + 1] = Eq
        THEN Let(ExprLen(Rest(ts, u + 1)), LAMBDA r :
                 IF r < 0 THEN -1 ELSE u + 1 + r)
        ELSE u)

\* input.parse::<syn::Expr>()
ParseExpr(ts) ==
    Let(ExprLen(ts), LAMBDA n :
        IF n < 0 THEN Err("expected expression")
        ELSE Ok(ExprV(SubSeq(ts, 1, n)), Rest(ts, n)))

-----------------------------------------------------------------------------
(* syn::NestedMeta / syn::Meta (syn 0.15)                                  *)

RECURSIVE ParseNestedMeta(_), ParseNestedList(_)

\* content.parse_terminated(NestedMeta::parse) of a MetaList
ParseNestedList(s) ==
    IF s = <<>> THEN Ok(List(<<>>), <<>>)
    ELSE AndThen(ParseNestedMeta(s), LAMBDA r :
             IF r.rest = <<>> THEN Ok(List(<<r.v>>), <<>>)
             ELSE IF r.rest[1] # Comma THEN Err("expected comma")
             ELSE AndThen(ParseNestedList(Tail(r.rest)), LAMBDA q :
                      Ok(List(<<r.v>> \o q.v.items), <<>>)))

ParseNestedMeta(ts) ==
    IF ts = <<>> THEN Err("expected identifier or literal")
    ELSE IF IsLit(ts[1]) THEN Ok([t |-> "Literal", lit |-> ts[1]], Tail(ts))
    ELSE IF ~IsIdent(ts[1]) THEN Err("expected identifier or literal")
    ELSE IF Len(ts) >= 2 /\ IsParen(ts[2])
    THEN AndThen(ParseNestedList(ts[2].s), LAMBDA n :
             Ok([t |-> "MetaList", ident |-> ts[1].v, nested |-> n.v.items],
                Rest(ts, 2)))
    ELSE IF PeekEq(Tail(ts))
    THEN IF ts[2] = Eq /\ Len(ts) >= 3 /\ IsLit(ts[3])
         THEN Ok([t |-> "NameValue", ident |-> ts[1].v, lit |-> ts[3]], Rest(ts, 3))
         ELSE Err("expected literal")
    ELSE Ok([t |-> "Word", ident |-> ts[1].v], Tail(ts))

-----------------------------------------------------------------------------
(* syn::Type, restricted to the tokens of the model: paths with generic    *)
(* arguments, tuples, slices.  Tokens covered, or -1.                      *)

RECURSIVE TypeLen(_), TypeListOk(_), TypeSegs(_, _), AngleLen(_, _), GenericArgLen(_)

\* Punctuated::<Type, Token![,]>::parse_terminated succeeds on s
TypeListOk(s) ==
    \/ s = <<>>
    \/ Let(TypeLen(s), LAMBDA n :
          /\ n >= 0
          /\ \/ n = Len(s)
             \/ s[n + 1] = Comma /\ TypeListOk(Rest(s, n + 1)))

\* GenericArgument::parse
GenericArgLen(ts) ==
    IF ts # <<>> /\ IsIdent(ts[1]) /\ Peek2Eq(ts)
    THEN IF ts[2] = Eq
         THEN Let(TypeLen(Rest(ts, 2)), LAMBDA t : IF t < 0 THEN -1 ELSE 2 + t)
         ELSE -1
    ELSE Let(TypeLen(ts), LAMBDA t :
             IF t >= 0 THEN t
             ELSE IF ts # <<>> /\ IsLit(ts[1]) THEN 1
             ELSE -1)

\* AngleBracketedGenericArguments after its `<`, the n-th token
AngleLen(ts, n) ==
    IF Len(ts) > n /\ ts[n + 1] = Gt THEN n + 1
    ELSE Let(GenericArgLen(Rest(ts, n)), LAMBDA g :
             IF g < 0 THEN -1
             ELSE IF Len(ts) > n + g /\ ts[n + g + 1] = Gt THEN n + g + 1
             ELSE IF Len(ts) > n + g /\ ts[n + g + 1] = Comma
             THEN AngleLen(ts, n + g + 1)
             ELSE -1)

\* the position of the `<` that opens the generic arguments of the segment
\* ending at token m (directly, or behind `::`), or 0
AngleStart(ts, m) ==
    IF Len(ts) > m /\ ts[m + 1] = Lt THEN m + 1
    ELSE IF Len(ts) >= m + 2 /\ ts[m + 1] = Colon2 /\ ts[m + 2] = Lt THEN m + 2
    ELSE 0

\* the path segments that start behind token n; args: the last segment has
\* generic arguments
TypeSegs(ts, n) ==
    IF ~(Len(ts) > n /\ IsIdent(ts[n + 1])) THEN [n |-> -1, args |-> FALSE]
    ELSE Let(AngleStart(ts, n + 1), LAMBDA lt :
         Let(IF lt = 0 THEN n + 1 ELSE AngleLen(ts, lt), LAMBDA a :
             IF a < 0 THEN [n |-> -1, args |-> FALSE]
             ELSE IF Len(ts) > a /\ ts[a + 1] = Colon2 THEN TypeSegs(ts, a + 1)
             ELSE [n |-> a, args |-> lt # 0 /\ a # lt + 1]))

\* TypePath::parse: the path, then Fn-style parenthesized arguments
TypePathLen(ts, n) ==
    Let(TypeSegs(ts, n), LAMBDA p :
        IF p.n < 0 THEN -1
        ELSE IF ~p.args /\ Len(ts) > p.n /\ IsParen(ts[p.n + 1])
        THEN IF TypeListOk(ts[p.n + 1].s) THEN p.n + 1 ELSE -1
        ELSE p.n)

\* the parenthesized type or tuple with the contents s
ParenTypeOk(s) ==
    \/ s = <<>>
    \/ Let(TypeLen(s), LAMBDA f :
          /\ f >= 0
          /\ \/ f = Len(s)
             \/ s[f + 1] = Comma /\ TypeListOk(Rest(s, f + 1)))

TypeLen(ts) ==
    IF ts = <<>> THEN -1
    ELSE IF IsParen(ts[1]) THEN IF ParenTypeOk(ts[1].s) THEN 1 ELSE -1
    ELSE IF IsBracket(ts[1])
    THEN IF ts[1].s # <<>> /\ TypeLen(ts[1].s) = Len(ts[1].s) THEN 1 ELSE -1
    ELSE IF IsIdent(ts[1]) THEN TypePathLen(ts, 0)
    ELSE IF ts[1] = Colon2 THEN TypePathLen(ts, 1)
    ELSE IF ts[1] = Lt
    THEN Let(TypeLen(Tail(ts)), LAMBDA q :
             IF q >= 0 /\ Len(ts) >= q + 3 /\ ts[q + 2] = Gt /\ ts[q + 3] = Colon2
             THEN TypePathLen(ts, q + 3)
             ELSE -1)
    ELSE -1

\* input.parse::<syn::Type>()
ParseType(ts) ==
    Let(TypeLen(ts), LAMBDA n :
        IF n < 0 THEN Err("expected type")
        ELSE Ok(TypeV(SubSeq(ts, 1, n)), Rest(ts, n)))

-----------------------------------------------------------------------------
(* CaseArg and the deprecated Unwrap("<code>") form                        *)

UNWRAP_NAME == "Unwrap"

CaseArg(expr) == [t |-> "CaseArg", expr |-> expr]

\* LitStr::parse::<Expr>(): the contents, lexed and parsed as a whole
LitStrParse(lit) ==
    IF lit.v = "lexerr" THEN Err("lex error") ELSE Parse2(ParseExpr(lit.s))

\* nested_meta_literal_str(nested).is_some()
nested_meta_literal_str(nested) == nested.t = "Literal" /\ nested.lit.k = "str"

\* get_unwrap(nested).is_ok()
get_unwrap(nested) == nested.t = "MetaList" /\ nested.ident = UNWRAP_NAME

\* arg.nested.first().map(..).and_then(nested_meta_literal_str).is_some()
FirstIsLiteralStr(list) ==
    list.nested # <<>> /\ nested_meta_literal_str(list.nested[1])

\* report_deprecated panics: never with use_proc_macro_diagnostic; without
\* it, on the unwrap() of a first argument that is no string literal and on
\* the unreachable!() of a nested meta that is no list
report_deprecated_panics(nested, diag) ==
    /\ ~diag
    /\ IF nested.t = "MetaList" THEN ~FirstIsLiteralStr(nested) ELSE TRUE

\* UnwrapRustCode::peek
UnwrapPeek(ts) ==
    Let(ParseNestedMeta(ts), LAMBDA r : IsOk(r) /\ get_unwrap(r.v))

\* <UnwrapRustCode as Parse>::parse
ParseUnwrapRustCode(ts, diag) ==
    AndThen(ParseNestedMeta(ts), LAMBDA nested :
        IF report_deprecated_panics(nested.v, diag)
        THEN Panic("called Option::unwrap() on a None value")
        ELSE IF ~get_unwrap(nested.v) THEN Err("Not a valid string rust code")
        ELSE IF ~FirstIsLiteralStr(nested.v) THEN Err("Invalid Unwrap argument")
        ELSE AndThen(LitStrParse(nested.v.nested[1].lit), LAMBDA e :
                 Ok(e.v, nested.rest)))

\* <CaseArg as Parse>::parse
ParseCaseArg(ts, diag) ==
    IF UnwrapPeek(ts)
    THEN AndThen(ParseUnwrapRustCode(ts, diag), LAMBDA u : Ok(CaseArg(u.v), u.rest))
    ELSE Let(ParseExpr(ts), LAMBDA e :
             IF IsOk(e) THEN Ok(CaseArg(e.v), e.rest)
             ELSE Err("Cannot parse due expected expression"))

-----------------------------------------------------------------------------
(* Modifiers                                                               *)

Attr(ident) == [t |-> "Attr", ident |-> ident]

Tagged(ident, idents) == [t |-> "Tagged", ident |-> ident, idents |-> idents]

TypeAttr(ident, ty) == [t |-> "Type", ident |-> ident, ty |-> ty]

no_literal_nested(nested) ==
    IF nested.t = "Literal" THEN Err("Unexpected literal") ELSE Ok(nested, <<>>)

\* just_word_meta with the bug of taking the name of a list or of a
\* name-value pair for a word
just_word_meta_AnyName(meta) == Ok(meta.ident, <<>>)

just_word_meta(meta) ==
    IF meta.t = "Word" THEN Ok(meta.ident, <<>>) ELSE Err("Should be an ident")

\* .collect::<Result<Vec<_>>>(): the first error in order, or all the values
Collect(rs) ==
    IF \E i \in 1..Len(rs) : ~IsOk(rs[i])
    THEN rs[CHOOSE i \in 1..Len(rs) :
                ~IsOk(rs[i]) /\ \A j \in 1..(i - 1) : IsOk(rs[j])]
    ELSE Ok(List([i \in 1..Len(rs) |-> rs[i].v]), <<>>)

\* ParseTagged with the bug of one pass: every nested item goes through
\* no_literal_nested and just_word_meta in turn, and the first error in
\* source order is returned
ParseTagged_OnePass(l, rest) ==
    AndThen(Collect([i \in 1..Len(l.nested) |->
                AndThen(no_literal_nested(l.nested[i]), LAMBDA meta :
                    just_word_meta(meta.v))]),
            LAMBDA idents :
    Ok(Tagged(l.ident, idents.v.items), rest))

\* the List arm of RsTestAttribute::parse: all the nested items go through
\* no_literal_nested, and what that collects goes through just_word_meta
ParseTagged(l, rest) ==
    AndThen(Collect([i \in 1..Len(l.nested) |-> no_literal_nested(l.nested[i])]),
            LAMBDA metas :
    AndThen(Collect([i \in 1..Len(metas.v.items) |-> just_word_meta(metas.v.items[i])]),
            LAMBDA idents :
    Ok(Tagged(l.ident, idents.v.items), rest)))

\* <RsTestAttribute as Parse>::parse
ParseRsTestAttribute(ts) ==
    IF Peek2(ts, "<")
    THEN AndThen(ParseIdent(ts), LAMBDA tag :
         AndThen(ParseToken(tag.rest, "<"), LAMBDA open :
         AndThen(ParseType(open.rest), LAMBDA inner :
         AndThen(ParseToken(inner.rest, ">"), LAMBDA close :
         Ok(TypeAttr(tag.v.name, inner.v), close.rest)))))
    ELSE AndThen(ParseNestedMeta(ts), LAMBDA nested :
         AndThen(no_literal_nested(nested.v), LAMBDA meta :
             IF meta.v.t = "Word" THEN Ok(Attr(meta.v.ident), nested.rest)
             ELSE IF meta.v.t = "MetaList" THEN ParseTagged(meta.v, nested.rest)
             ELSE Err("Invalid attribute")))

-----------------------------------------------------------------------------
(* Punctuated::parse_terminated, for the element types the parser uses     *)

ParseElement(kind, ts, diag) ==
    CASE kind = "CaseArg" -> ParseCaseArg(ts, diag)
      [] kind = "Expr" -> ParseExpr(ts)
      [] kind = "RsTestAttribute" -> ParseRsTestAttribute(ts)

RECURSIVE ParseTerminated(_, _, _, _)

\* Punctuated::<kind, sep>::parse_terminated: elements until the input is
\* empty, a separator after each but optionally the last
ParseTerminated(kind, sep, ts, diag) ==
    IF ts = <<>> THEN Ok(List(<<>>), <<>>)
    ELSE AndThen(ParseElement(kind, ts, diag), LAMBDA value :
             IF value.rest = <<>> THEN Ok(List(<<value.v>>), <<>>)
             ELSE IF value.rest[1] # sep THEN Err("expected separator")
             ELSE AndThen(ParseTerminated(kind, sep, Tail(value.rest), diag),
                          LAMBDA more : Ok(List(<<value.v>> \o more.v.items), <<>>)))

Modifiers(modifiers) == [t |-> "Modifiers", modifiers |-> modifiers]

\* ParseModifiers with the bug of collecting the entries back to front
ParseModifiers_Reversed(ts) ==
    AndThen(ParseTerminated("RsTestAttribute", Colon2, ts, FALSE), LAMBDA vars_ :
        Ok(Modifiers([i \in 1..Len(vars_.v.items) |->
                         vars_.v.items[Len(vars_.v.items) + 1 - i]]), <<>>))

\* <Modifiers as Parse>::parse
ParseModifiers(ts) ==
    AndThen(ParseTerminated("RsTestAttribute", Colon2, ts, FALSE), LAMBDA vars_ :
        Ok(Modifiers(vars_.v.items), <<>>))

\* ParseTrailingModifiers with the bug of leaving out the or_else: the `::`
\* is required
ParseTrailingModifiers_Required(ts) ==
    AndThen(ParseToken(ts, "::"), LAMBDA colon : ParseModifiers(colon.rest))

\* input.parse::<Token![::]>().or_else(|_| Ok(Default::default()))
\*      .and_then(|_| input.parse()): a `::` is consumed when there is one,
\* and the Modifiers are parsed from what follows either way
ParseTrailingModifiers(ts) ==
    ParseModifiers(IF Peek(ts, "::") THEN Tail(ts) ELSE ts)

-----------------------------------------------------------------------------
(* Fixture, TestCase, ValueList                                            *)

Fixture(name, positional) ==
    [t |-> "Fixture", name |-> name, positional |-> positional]

\* <Fixture as Parse>::parse
ParseFixture(ts) ==
    AndThen(ParseIdent(ts), LAMBDA name :
    AndThen(ParseGroup(name.rest, "paren"), LAMBDA group :
    AndThen(ParseTerminated("Expr", Comma, group.v.content, FALSE), LAMBDA positional :
    Ok(Fixture(name.v.name, positional.v.items), group.rest))))

TestCase(args, description) ==
    [t |-> "TestCase", args |-> args, description |-> description]

\* ParseDescription with the bug of consuming the description and then
\* forgetting it
ParseDescription_Forgotten(ts) ==
    IF Peek(ts, "::")
    THEN AndThen(ParseIdent(Tail(ts)), LAMBDA d : Ok(None, d.rest))
    ELSE Ok(None, ts)

\* the optional  :: description  of a test case
ParseDescription(ts) ==
    IF Peek(ts, "::")
    THEN AndThen(ParseIdent(Tail(ts)), LAMBDA d : Ok(Some(d.v), d.rest))
    ELSE Ok(None, ts)

\* TestCase::parse with the bug of not comparing the leading identifier
\* with the keyword
ParseTestCase_AnyKeyword(ts, diag) ==
    AndThen(ParseIdent(ts), LAMBDA case :
        AndThen(ParseDescription(case.rest), LAMBDA description :
        AndThen(ParseGroup(description.rest, "paren"), LAMBDA group :
        AndThen(ParseTerminated("CaseArg", Comma, group.v.content, diag),
                LAMBDA args :
        Ok(TestCase(args.v.items, description.v), group.rest)))))

\* <TestCase as Parse>::parse
ParseTestCase(ts, diag) ==
    AndThen(ParseIdent(ts), LAMBDA case :
        IF case.v.name = "case"
        THEN AndThen(ParseDescription(case.rest), LAMBDA description :
             AndThen(ParseGroup(description.rest, "paren"), LAMBDA group :
             AndThen(ParseTerminated("CaseArg", Comma, group.v.content, diag),
                     LAMBDA args :
             Ok(TestCase(args.v.items, description.v), group.rest))))
        ELSE Err("expected a test case"))

ValueList(arg, values) == [t |-> "ValueList", arg |-> arg, values |-> values]

\* ParseValueList with the bug of leaving out the check of the parsed values
ParseValueList_Unchecked(ts, diag) ==
    AndThen(ParseIdent(ts), LAMBDA arg :
    AndThen(ParseToken(arg.rest, "=>"), LAMBDA to :
    AndThen(ParseGroup(to.rest, "bracket"), LAMBDA group :
    AndThen(ParseTerminated("CaseArg", Comma, group.v.content, diag), LAMBDA values :
        Ok(ValueList(arg.v.name, values.v.items), group.rest)))))

\* <ValueList as Parse>::parse
ParseValueList(ts, diag) ==
    AndThen(ParseIdent(ts), LAMBDA arg :
    AndThen(ParseToken(arg.rest, "=>"), LAMBDA to :
    AndThen(ParseGroup(to.rest, "bracket"), LAMBDA group :
    AndThen(ParseTerminated("CaseArg", Comma, group.v.content, diag), LAMBDA values :
        IF Len(values.v.items) = 0
        THEN Err("Values list should not be empty")
        ELSE Ok(ValueList(arg.v.name, values.v.items), group.rest)))))

-----------------------------------------------------------------------------
(* Item classification                                                     *)

Item(type, variant, v) == [t |-> type, variant |-> variant, v |-> v]

\* r.map(<variant constructor>)
MapItem(type, variant, r) ==
    AndThen(r, LAMBDA x : Ok(Item(type, variant, x.v), x.rest))

\* ParseParametrizeItem with the bug of deciding by the keyword alone: an
\* item that starts with the identifier case must be a test case
ParseParametrizeItem_ByKeyword(ts, diag) ==
    IF ts # <<>> /\ ts[1] = Ident("case")
    THEN MapItem("ParametrizeItem", "TestCase", ParseTestCase(ts, diag))
    ELSE Let(ParseFixture(ts), LAMBDA fixture :
             IF IsOk(fixture) THEN MapItem("ParametrizeItem", "Fixture", fixture)
             ELSE Let(ParseIdent(ts), LAMBDA ident :
                      IF IsOk(ident)
                      THEN MapItem("ParametrizeItem", "CaseArgName", ident)
                      ELSE Err("Cannot parse parametrize info")))

\* ParseParametrizeItem with the bug of reporting the error of the Fixture
\* attempt when a group follows the identifier
ParseParametrizeItem_HardError(ts, diag) ==
    Let(ParseTestCase(ts, diag), LAMBDA case :
        IF case.st = "panic" THEN case
        ELSE IF IsOk(case) THEN MapItem("ParametrizeItem", "TestCase", case)
        ELSE Let(ParseFixture(ts), LAMBDA fixture :
                 IF IsOk(fixture) THEN MapItem("ParametrizeItem", "Fixture", fixture)
                 ELSE IF Len(ts) >= 2 /\ IsIdent(ts[1]) /\ IsParen(ts[2]) THEN fixture
                 ELSE Let(ParseIdent(ts), LAMBDA ident :
                          IF IsOk(ident)
                          THEN MapItem("ParametrizeItem", "CaseArgName", ident)
                          ELSE Err("Cannot parse parametrize info"))))

\* ParseParametrizeItem with the bug of trying the Fixture alternative
\* before the Case alternative
ParseParametrizeItem_FixtureFirst(ts, diag) ==
    Let(ParseFixture(ts), LAMBDA fixture :
        IF IsOk(fixture) THEN MapItem("ParametrizeItem", "Fixture", fixture)
        ELSE Let(ParseTestCase(ts, diag), LAMBDA case :
                 IF case.st = "panic" THEN case
                 ELSE IF IsOk(case) THEN MapItem("ParametrizeItem", "TestCase", case)
                 ELSE Let(ParseIdent(ts), LAMBDA ident :
                          IF IsOk(ident)
                          THEN MapItem("ParametrizeItem", "CaseArgName", ident)
                          ELSE Err("Cannot parse parametrize info"))))

\* <ParametrizeItem as Parse>::parse.  Each alternative is tried on a fork
\* and parsed again on the input when the fork succeeds; a panic inside a
\* fork is a panic of the whole parse.
ParseParametrizeItem(ts, diag) ==
    Let(ParseTestCase(ts, diag), LAMBDA case :
        IF case.st = "panic" THEN case
        ELSE IF IsOk(case) THEN MapItem("ParametrizeItem", "TestCase", case)
        ELSE Let(ParseFixture(ts), LAMBDA fixture :
                 IF IsOk(fixture) THEN MapItem("ParametrizeItem", "Fixture", fixture)
                 ELSE Let(ParseIdent(ts), LAMBDA ident :
                          IF IsOk(ident)
                          THEN MapItem("ParametrizeItem", "CaseArgName", ident)
                          ELSE Err("Cannot parse parametrize info"))))

\* ParseMatrixItem with the bug of falling back to the Fixture alternative
\* when the value list does not parse
ParseMatrixItem_Fallback(ts, diag) ==
    Let(ParseValueList(ts, diag), LAMBDA values :
        IF Peek2(ts, "=>") /\ IsOk(values)
        THEN MapItem("MatrixItem", "ValueList", values)
        ELSE Let(ParseFixture(ts), LAMBDA fixture :
                 IF IsOk(fixture) THEN MapItem("MatrixItem", "Fixture", fixture)
                 ELSE Err("Cannot parse matrix info")))

\* <MatrixItem as Parse>::parse
ParseMatrixItem(ts, diag) ==
    IF Peek2(ts, "=>")
    THEN MapItem("MatrixItem", "ValueList", ParseValueList(ts, diag))
    ELSE Let(ParseFixture(ts), LAMBDA fixture :
             IF IsOk(fixture) THEN MapItem("MatrixItem", "Fixture", fixture)
             ELSE Err("Cannot parse matrix info"))

\* <RsTestItem as Parse>::parse
ParseRsTestItem(ts) == MapItem("RsTestItem", "Fixture", ParseFixture(ts))

\* <FixtureItem as Parse>::parse
ParseFixtureItem(ts) == MapItem("FixtureItem", "Fixture", ParseFixture(ts))

\* T::parse of parse_vector_trailing::<T, _>
ParseItem(kind, ts, diag) ==
    CASE kind = "ParametrizeItem" -> ParseParametrizeItem(ts, diag)
      [] kind = "MatrixItem" -> ParseMatrixItem(ts, diag)
      [] kind = "RsTestItem" -> ParseRsTestItem(ts)
      [] kind = "FixtureItem" -> ParseFixtureItem(ts)

\* ParseSlot with the bug of requiring an item in every slot, the one behind
\* the last separator included
ParseSlot_ItemRequired(kind, ts, diag) ==
    AndThen(ParseItem(kind, ts, diag), LAMBDA inner : Ok(Some(inner.v), inner.rest))

\* ParseSlot with every empty slot permitted: a slot is empty at the end of
\* the input and in front of a separator
ParseSlot_EmptyAnywhere(kind, ts, diag) ==
    IF ts = <<>> \/ ts[1] = Comma THEN Ok(None, ts)
    ELSE AndThen(ParseItem(kind, ts, diag), LAMBDA inner :
             Ok(Some(inner.v), inner.rest))

\* the closure parse_vector_trailing hands to the list parser: an empty
\* remaining input is the slot None, anything else must parse as a T
ParseSlot(kind, ts, diag) ==
    IF ts = <<>> THEN Ok(None, ts)
    ELSE AndThen(ParseItem(kind, ts, diag), LAMBDA inner :
             Ok(Some(inner.v), inner.rest))

RECURSIVE parse_separated_nonempty_with(_, _, _, _)

\* Punctuated::<Option<T>, P>::parse_separated_nonempty_with: a slot, then
\* as long as a separator follows, the separator and another slot
parse_separated_nonempty_with(kind, sep, ts, diag) ==
    AndThen(ParseSlot(kind, ts, diag), LAMBDA slot :
        IF slot.rest # <<>> /\ slot.rest[1] = sep
        THEN AndThen(parse_separated_nonempty_with(kind, sep, Tail(slot.rest), diag),
                     LAMBDA more : Ok(List(<<slot.v>> \o more.v.items), more.rest))
        ELSE Ok(List(<<slot.v>>), slot.rest))

RECURSIVE FilterSome(_)

\* .into_iter().filter_map(|it| it).collect()
FilterSome(slots) ==
    IF slots = <<>> THEN <<>>
    ELSE (IF Head(slots).t = "Some" THEN <<Head(slots).v>> ELSE <<>>)
         \o FilterSome(Tail(slots))

\* parse_vector_trailing::<T, P>
parse_vector_trailing(kind, sep, ts, diag) ==
    AndThen(parse_separated_nonempty_with(kind, sep, ts, diag), LAMBDA p :
        Ok(List(FilterSome(p.v.items)), p.rest))

-----------------------------------------------------------------------------
(* The directives.  Every Info is modelled with the fields data and        *)
(* modifiers (MatrixInfo names its data args); the modifiers of RsTestInfo *)
(* and FixtureInfo are the parsed Modifiers, whose conversion into         *)
(* RsTestModifiers and FixtureModifiers is outside this file.              *)

ParametrizeData(data) == [t |-> "ParametrizeData", data |-> data]

\* <ParametrizeData as Parse>::parse
ParseParametrizeData(ts, diag) ==
    AndThen(parse_vector_trailing("ParametrizeItem", Comma, ts, diag), LAMBDA v :
        Ok(ParametrizeData(v.v.items), v.rest))

Info(type, data, modifiers) == [t |-> type, data |-> data, modifiers |-> modifiers]

\* Info { data: <data>?, modifiers: <trailing modifiers>? }
WithModifiers(type, data) ==
    AndThen(data, LAMBDA d :
    AndThen(ParseTrailingModifiers(d.rest), LAMBDA m :
    Ok(Info(type, d.v, m.v), m.rest)))

\* <ParametrizeInfo as Parse>::parse
ParseParametrizeInfo(ts, diag) ==
    WithModifiers("ParametrizeInfo", ParseParametrizeData(ts, diag))

MatrixValues(items) == [t |-> "MatrixValues", items |-> items]

\* <MatrixInfo as Parse>::parse
ParseMatrixInfo(ts, diag) ==
    WithModifiers("MatrixInfo",
        AndThen(parse_vector_trailing("MatrixItem", Comma, ts, diag), LAMBDA v :
            Ok(MatrixValues(v.v.items), v.rest)))

RsTestData(items) == [t |-> "RsTestData", items |-> items]

\* <RsTestData as Parse>::parse
ParseRsTestData(ts) ==
    IF Peek(ts, "::") THEN Ok(RsTestData(<<>>), ts)
    ELSE AndThen(parse_vector_trailing("RsTestItem", Comma, ts, FALSE), LAMBDA v :
             Ok(RsTestData(v.v.items), v.rest))

\* <RsTestInfo as Parse>::parse
ParseRsTestInfo(ts) ==
    IF ts = <<>> THEN Ok(Info("RsTestInfo", RsTestData(<<>>), Modifiers(<<>>)), ts)
    ELSE WithModifiers("RsTestInfo", ParseRsTestData(ts))

FixtureData(items) == [t |-> "FixtureData", items |-> items]

\* ParseFixtureData with the bug of leaving out the look at a leading `::`
ParseFixtureData_NoPeek(ts) ==
    AndThen(parse_vector_trailing("FixtureItem", Comma, ts, FALSE), LAMBDA v :
        Ok(FixtureData(v.v.items), v.rest))

\* <FixtureData as Parse>::parse
ParseFixtureData(ts) ==
    IF Peek(ts, "::") THEN Ok(FixtureData(<<>>), ts)
    ELSE AndThen(parse_vector_trailing("FixtureItem", Comma, ts, FALSE), LAMBDA v :
             Ok(FixtureData(v.v.items), v.rest))

\* <FixtureInfo as Parse>::parse
ParseFixtureInfo(ts) ==
    IF ts = <<>> THEN Ok(Info("FixtureInfo", FixtureData(<<>>), Modifiers(<<>>)), ts)
    ELSE WithModifiers("FixtureInfo", ParseFixtureData(ts))

\* parse_meta::<T, _>(tokens): syn::parse2::<T> of the token stream
parse_meta(T, ts, diag) ==
    Parse2(CASE T = "TestCase" -> ParseTestCase(ts, diag)
             [] T = "ValueList" -> ParseValueList(ts, diag)
             [] T = "Modifiers" -> ParseModifiers(ts)
             [] T = "ParametrizeData" -> ParseParametrizeData(ts, diag)
             [] T = "ParametrizeInfo" -> ParseParametrizeInfo(ts, diag)
             [] T = "MatrixInfo" -> ParseMatrixInfo(ts, diag)
             [] T = "RsTestData" -> ParseRsTestData(ts)
             [] T = "RsTestInfo" -> ParseRsTestInfo(ts)
             [] T = "FixtureInfo" -> ParseFixtureInfo(ts))

-----------------------------------------------------------------------------
(* The state machine: a token stream, then one parse2::<T> of it           *)

MaxLen == 4

\* all sequences over S of length at most n
SeqsUpTo(S, n) == UNION {[1..k -> S] : k \in 0..n}

\* group tokens of the inputs: argument lists (empty, one, two expressions)
\* and value lists (empty, one value)
Groups ==
    { Paren(<<>>), Paren(<<Ident("a")>>), Paren(<<LitInt("42"), Comma, Ident("a")>>),
      Bracket(<<>>), Bracket(<<LitInt("42")>>) }

Tokens == {Ident("case"), Ident("a"), Comma, Colon2, FatArrow} \cup Groups

NoResult == [st |-> "none", v |-> NoVal, rest |-> <<>>, msg |-> ""]

Parsers ==
    { "TestCase", "ValueList", "Modifiers", "ParametrizeData", "ParametrizeInfo",
      "MatrixInfo", "RsTestData", "RsTestInfo", "FixtureInfo", "ParametrizeItem",
      "RsTestAttribute" }

TypeOK ==
    /\ input \in Seq(Tokens \cup {Lt, Gt, Eq})
    /\ use_proc_macro_diagnostic \in BOOLEAN
    /\ parser \in Parsers \cup {"none"}
    /\ result.st \in {"none", "ok", "err", "panic"}
    /\ parser = "none" <=> result = NoResult

Init ==
    /\ input \in SeqsUpTo(Tokens, MaxLen)
    /\ use_proc_macro_diagnostic \in BOOLEAN
    /\ parser = "none"
    /\ result = NoResult

\* parse_meta::<TestCase>(input), that is syn::parse2::<TestCase>
ParseMetaTestCase ==
    /\ parser = "none"
    /\ parser' = "TestCase"
    /\ result' = Parse2(ParseTestCase(input, use_proc_macro_diagnostic))
    /\ UNCHANGED <<input, use_proc_macro_diagnostic>>

ParseMetaValueList ==
    /\ parser = "none"
    /\ parser' = "ValueList"
    /\ result' = Parse2(ParseValueList(input, use_proc_macro_diagnostic))
    /\ UNCHANGED <<input, use_proc_macro_diagnostic>>

ParseMetaModifiers ==
    /\ parser = "none"
    /\ parser' = "Modifiers"
    /\ result' = Parse2(ParseModifiers(input))
    /\ UNCHANGED <<input, use_proc_macro_diagnostic>>

ParseMetaParametrizeData ==
    /\ parser = "none"
    /\ parser' = "ParametrizeData"
    /\ result' = Parse2(ParseParametrizeData(input, use_proc_macro_diagnostic))
    /\ UNCHANGED <<input, use_proc_macro_diagnostic>>

ParseMetaParametrizeInfo ==
    /\ parser = "none"
    /\ parser' = "ParametrizeInfo"
    /\ result' = Parse2(ParseParametrizeInfo(input, use_proc_macro_diagnostic))
    /\ UNCHANGED <<input, use_proc_macro_diagnostic>>

ParseMetaMatrixInfo ==
    /\ parser = "none"
    /\ parser' = "MatrixInfo"
    /\ result' = Parse2(ParseMatrixInfo(input, use_proc_macro_diagnostic))
    /\ UNCHANGED <<input, use_proc_macro_diagnostic>>

ParseMetaRsTestData ==
    /\ parser = "none"
    /\ parser' = "RsTestData"
    /\ result' = Parse2(ParseRsTestData(input))
    /\ UNCHANGED <<input, use_proc_macro_diagnostic>>

ParseMetaRsTestInfo ==
    /\ parser = "none"
    /\ parser' = "RsTestInfo"
    /\ result' = Parse2(ParseRsTestInfo(input))
    /\ UNCHANGED <<input, use_proc_macro_diagnostic>>

ParseMetaFixtureInfo ==
    /\ parser = "none"
    /\ parser' = "FixtureInfo"
    /\ result' = Parse2(ParseFixtureInfo(input))
    /\ UNCHANGED <<input, use_proc_macro_diagnostic>>

Next ==
    \/ ParseMetaTestCase
    \/ ParseMetaValueList
    \/ ParseMetaModifiers
    \/ ParseMetaParametrizeData
    \/ ParseMetaParametrizeInfo
    \/ ParseMetaMatrixInfo
    \/ ParseMetaRsTestData
    \/ ParseMetaRsTestInfo
    \/ ParseMetaFixtureInfo

Spec == Init /\ [][Next]_vars

-----------------------------------------------------------------------------
(* A second specification: test cases whose argument list is any short     *)
(* token sequence, handed to TestCase and to a Parametrize item list       *)

MaxInner == 4

\* the tokens inside the parentheses: literals, names, the Unwrap keyword,
\* separators, tokens no expression contains, and nested argument groups
InnerTokens ==
    { LitInt("42"), Ident("a"), Ident(UNWRAP_NAME), Comma, Colon2, FatArrow, Eq,
      Paren(<<>>), Paren(<<Ident("a")>>), Paren(<<LitStr(<<LitInt("42")>>)>>) }

CaseInputs ==
    { <<h>> \o d \o <<Paren(c)>> :
        h \in {Ident("case"), Ident("a")},
        d \in {<<>>, <<Colon2, Ident("a")>>},
        c \in SeqsUpTo(InnerTokens, MaxInner) }

InitCase ==
    /\ input \in CaseInputs
    /\ use_proc_macro_diagnostic \in BOOLEAN
    /\ parser = "none"
    /\ result = NoResult

NextCase ==
    \/ ParseMetaTestCase
    \/ ParseMetaParametrizeData

SpecCase == InitCase /\ [][NextCase]_vars

-----------------------------------------------------------------------------
(* Reading an input by the grammar of the specification (not by the        *)
(* parser): the pieces between top-level separators                        *)

RECURSIVE SplitAt(_, _)

\* the pieces of s between the separators sep; one piece when there is none
SplitAt(s, sep) ==
    IF \A i \in 1..Len(s) : s[i] # sep THEN <<s>>
    ELSE Let(CHOOSE j \in 1..Len(s) : s[j] = sep /\ \A k \in 1..(j - 1) : s[k] # sep,
             LAMBDA i : <<SubSeq(s, 1, i - 1)>> \o SplitAt(Rest(s, i), sep))

\* s without one trailing separator
DropTrailing(s, sep) ==
    IF s # <<>> /\ s[Len(s)] = sep THEN SubSeq(s, 1, Len(s) - 1) ELSE s

\* E1, ..., En of a list  E1 , ... , En [,]  (n >= 0)
ListPieces(s, sep) == IF s = <<>> THEN <<>> ELSE SplitAt(DropTrailing(s, sep), sep)

\* the piece is one whole expression of the host language
IsWholeExpr(e) == e # <<>> /\ ExprLen(e) = Len(e)

\* the piece starts with the keyword and shape of the deprecated wrapped
\* form: Unwrap ( ... )
IsWrappedShape(e) == Len(e) >= 2 /\ e[1] = Ident(UNWRAP_NAME) /\ IsParen(e[2])

\* the piece is the deprecated wrapped form: Unwrap("<code>"), the code one
\* whole expression
IsWrappedForm(e) ==
    /\ Len(e) = 2
    /\ IsWrappedShape(e)
    /\ Len(e[2].s) = 1
    /\ e[2].s[1].k = "str"
    /\ e[2].s[1].v # "lexerr"
    /\ IsWholeExpr(e[2].s[1].s)

\* input is  case ( ... )  or  case :: D ( ... )
IsCaseShape(ts) ==
    \/ Len(ts) = 2 /\ ts[1] = Ident("case") /\ IsParen(ts[2])
    \/ Len(ts) = 4 /\ ts[1] = Ident("case") /\ ts[2] = Colon2 /\ IsIdent(ts[3])
                   /\ IsParen(ts[4])

CaseExprs(ts) == ListPieces(ts[Len(ts)].s, Comma)

CaseDescription(ts) == IF Len(ts) = 4 THEN Some(IdentV(ts[3])) ELSE None

\* the Case Node with args[i] = Ei, for  case [:: D] (E1, ..., En)
ExpectedCase(ts) ==
    TestCase([i \in 1..Len(CaseExprs(ts)) |-> CaseArg(ExprV(CaseExprs(ts)[i]))],
             CaseDescription(ts))

\* the Argument Node of the piece e: the expression e, or the expression in
\* the string of the wrapped form
ArgumentOf(e) ==
    IF IsWrappedForm(e) THEN CaseArg(ExprV(e[2].s[1].s)) ELSE CaseArg(ExprV(e))

\* C1 as stated: for every input case(E1, ..., En) or case :: D (E1, ..., En)
\* of n >= 0 parseable expressions (optional trailing comma), TestCase parse
\* yields exactly n args, args[i] = Ei in source order, and the description
\* None, respectively Some(D).
C1_AsStated ==
    ( /\ parser = "TestCase"
      /\ IsCaseShape(input)
      /\ \A i \in 1..Len(CaseExprs(input)) : IsWholeExpr(CaseExprs(input)[i]) )
    => result = Ok(ExpectedCase(input), <<>>)

\* C1, amended: for every input case(E1, ..., En) or case :: D (E1, ..., En)
\* of n >= 0 parseable expressions (optional trailing comma), each Ei either
\* not starting with Unwrap(...) or being the wrapped form Unwrap("<code>"),
\* TestCase parse yields exactly n args in source order, args[i] = Ei for an
\* Ei of the direct form and the expression of <code> for a wrapped one, and
\* the description None, respectively Some(D).
C1_CaseArgsInOrder ==
    ( /\ parser = "TestCase"
      /\ IsCaseShape(input)
      /\ \A i \in 1..Len(CaseExprs(input)) :
            /\ IsWholeExpr(CaseExprs(input)[i])
            /\ IsWrappedShape(CaseExprs(input)[i]) => IsWrappedForm(CaseExprs(input)[i]) )
    => result = Ok(TestCase([i \in 1..Len(CaseExprs(input)) |->
                                ArgumentOf(CaseExprs(input)[i])],
                            CaseDescription(input)), <<>>)

\* a described case of two expressions and a trailing comma has been parsed
C1_Witness ==
    /\ parser = "TestCase"
    /\ input = <<Ident("case"), Colon2, Ident("a"),
                 Paren(<<LitInt("42"), Comma, Ident("a"), Comma>>)>>
    /\ result = Ok(TestCase(<<CaseArg(ExprV(<<LitInt("42")>>)),
                              CaseArg(ExprV(<<Ident("a")>>))>>,
                            Some(IdentV(Ident("a")))), <<>>)

-----------------------------------------------------------------------------
(* Item lists, read by the grammar of the specification                    *)

\* the items of a parsed item list or directive
ItemsOf(v) ==
    CASE v.t = "ParametrizeData" -> v.data
      [] v.t = "ParametrizeInfo" -> v.data.data
      [] v.t = "RsTestData" -> v.items
      [] v.t \in {"MatrixInfo", "RsTestInfo", "FixtureInfo"} -> v.data.items

\* the piece is  case (E1, ..., En)  or  case :: D (E1, ..., En), every Ei
\* an expression of the direct form
IsCasePiece(e) ==
    /\ IsCaseShape(e)
    /\ \A i \in 1..Len(CaseExprs(e)) :
          IsWholeExpr(CaseExprs(e)[i]) /\ ~IsWrappedShape(CaseExprs(e)[i])

\* the piece is  name (E1, ..., En), name not the keyword case
IsFixturePiece(e) ==
    /\ Len(e) = 2 /\ IsIdent(e[1]) /\ e[1] # Ident("case") /\ IsParen(e[2])
    /\ \A i \in 1..Len(CaseExprs(e)) : IsWholeExpr(CaseExprs(e)[i])

\* the piece is one identifier
IsNamePiece(e) == Len(e) = 1 /\ IsIdent(e[1])

\* the Parametrize item the specification describes for a piece
ExpectedParametrizeItem(e) ==
    IF IsNamePiece(e) THEN Item("ParametrizeItem", "CaseArgName", IdentV(e[1]))
    ELSE IF IsCasePiece(e) THEN Item("ParametrizeItem", "TestCase", ExpectedCase(e))
    ELSE Item("ParametrizeItem", "Fixture",
              Fixture(e[1].v, [i \in 1..Len(CaseExprs(e)) |-> ExprV(CaseExprs(e)[i])]))

\* the identifier case at the head of ts is followed by a parenthesised
\* group, directly or behind a description
CaseHasGroup(ts) ==
    \/ Len(ts) >= 2 /\ IsParen(ts[2])
    \/ Len(ts) >= 4 /\ ts[2] = Colon2 /\ IsIdent(ts[3]) /\ IsParen(ts[4])

\* C2: in a Parametrize item list, an identifier case that is not followed
\* by a parenthesised group is classified as a bare argument name and
\* consumes only that identifier, and the slots after it are classified on
\* their own: a list of names, cases and fixtures of which some slot is the
\* bare identifier case parses to exactly the item of each slot in order (the
\* slot case to CaseArgName, a following case(...) to TestCase); and whatever
\* follows a leading bare case, a directive that parses has CaseArgName(case)
\* as its first item.
C2_BareCaseIsArgName ==
    /\ ( /\ parser = "ParametrizeData"
         /\ input # <<>>
         /\ \A i \in 1..Len(ListPieces(input, Comma)) :
               \/ IsNamePiece(ListPieces(input, Comma)[i])
               \/ IsCasePiece(ListPieces(input, Comma)[i])
               \/ IsFixturePiece(ListPieces(input, Comma)[i])
         /\ \E i \in 1..Len(ListPieces(input, Comma)) :
               ListPieces(input, Comma)[i] = <<Ident("case")>> )
       => result = Ok(ParametrizeData([i \in 1..Len(ListPieces(input, Comma)) |->
                         ExpectedParametrizeItem(ListPieces(input, Comma)[i])]), <<>>)
    /\ ( /\ parser = "ParametrizeInfo"
         /\ input # <<>>
         /\ input[1] = Ident("case")
         /\ ~CaseHasGroup(input)
         /\ IsOk(result) )
       => /\ ItemsOf(result.v) # <<>>
          /\ ItemsOf(result.v)[1] =
                Item("ParametrizeItem", "CaseArgName", IdentV(Ident("case")))

\* the list  case, case(42, a)  has been parsed to a name and a test case
C2_Witness ==
    /\ parser = "ParametrizeData"
    /\ input = <<Ident("case"), Comma, Ident("case"),
                 Paren(<<LitInt("42"), Comma, Ident("a")>>)>>
    /\ result = Ok(ParametrizeData(
                     <<Item("ParametrizeItem", "CaseArgName", IdentV(Ident("case"))),
                       Item("ParametrizeItem", "TestCase",
                            TestCase(<<CaseArg(ExprV(<<LitInt("42")>>)),
                                       CaseArg(ExprV(<<Ident("a")>>))>>, None))>>), <<>>)

\* the parsers of the four item lists; the Matrix and the Fixture list are
\* parsed by their directive
ItemListParsers == {"ParametrizeData", "MatrixInfo", "RsTestData", "FixtureInfo"}

\* the input, parsed successfully, is an item list ending at the end of the
\* input: no modifier chain has been parsed from it
IsParsedItemList ==
    /\ parser \in ItemListParsers
    /\ IsOk(result)
    /\ parser \in {"MatrixInfo", "FixtureInfo"} =>
          /\ \A i \in 1..Len(input) : input[i] # Colon2
          /\ result.v.modifiers.modifiers = <<>>

-----------------------------------------------------------------------------
(* Value lists and Matrix items                                            *)

\* C4: ValueList parse of  name => []  fails with the error "Values list
\* should not be empty" for every name, and every ValueList of a
\* successfully parsed MatrixInfo has at least one value.
C4_ValuesNeverEmpty ==
    /\ ( /\ parser = "ValueList"
         /\ Len(input) = 3
         /\ IsIdent(input[1]) /\ input[2] = FatArrow /\ input[3] = Bracket(<<>>) )
       => result = Err("Values list should not be empty")
    /\ (parser = "MatrixInfo" /\ IsOk(result))
       => \A i \in 1..Len(ItemsOf(result.v)) :
             ItemsOf(result.v)[i].variant = "ValueList"
             => Len(ItemsOf(result.v)[i].v.values) >= 1

\* the value list  case => []  has been refused
C4_Witness ==
    /\ parser = "ValueList"
    /\ input = <<Ident("case"), FatArrow, Bracket(<<>>)>>
    /\ result = Err("Values list should not be empty")

\* the second token of ts is the arrow.  The tokens counted are those of the
\* cursor, where `::` and `=>` are two punctuation characters each: behind
\* one of them the second token is its second character.
SecondTokenIsArrow(ts) == Len(ts) >= 2 /\ ~IsMultiPunct(ts[1]) /\ ts[2] = FatArrow

\* the input is a Matrix item list, without a modifier chain
IsMatrixItemList ==
    /\ parser = "MatrixInfo"
    /\ \A i \in 1..Len(input) : input[i] # Colon2
    /\ IsOk(result) => result.v.modifiers.modifiers = <<>>

\* C5: a Matrix slot whose second token is `=>` is always parsed as a Value
\* List, never as a Fixture, and a failure of the Value List parse is the
\* error of the whole parse; a slot whose second token is not `=>` is a
\* Fixture if the Fixture parse succeeds and otherwise fails with "Cannot
\* parse matrix info".  Stated for the first slot of every input, and for
\* the variant of every slot of an item list that parses.
C5_MatrixItemClassification ==
    /\ (parser = "MatrixInfo" /\ input # <<>> /\ SecondTokenIsArrow(input))
       => IF IsOk(ParseValueList(input, use_proc_macro_diagnostic))
          THEN IsOk(result)
               => ItemsOf(result.v)[1] =
                     Item("MatrixItem", "ValueList",
                          ParseValueList(input, use_proc_macro_diagnostic).v)
          ELSE result = ParseValueList(input, use_proc_macro_diagnostic)
    /\ (parser = "MatrixInfo" /\ input # <<>> /\ ~SecondTokenIsArrow(input))
       => IF IsOk(ParseFixture(input))
          THEN IsOk(result)
               => ItemsOf(result.v)[1] =
                     Item("MatrixItem", "Fixture", ParseFixture(input).v)
          ELSE result = Err("Cannot parse matrix info")
    /\ (IsMatrixItemList /\ IsOk(result) /\ input # <<>>)
       => /\ Len(ItemsOf(result.v)) = Len(ListPieces(input, Comma))
          /\ \A i \in 1..Len(ItemsOf(result.v)) :
                ItemsOf(result.v)[i].variant =
                   IF SecondTokenIsArrow(ListPieces(input, Comma)[i])
                   THEN "ValueList" ELSE "Fixture"

\* the Matrix directive  a => []  has failed with the error of the value
\* list, the Fixture alternative not tried
C5_Witness ==
    /\ parser = "MatrixInfo"
    /\ input = <<Ident("a"), FatArrow, Bracket(<<>>)>>
    /\ result = Err("Values list should not be empty")

-----------------------------------------------------------------------------
(* The shape of the directives                                             *)

InfoParsers == {"ParametrizeInfo", "MatrixInfo", "RsTestInfo", "FixtureInfo"}

\* the directive without items, with the given modifiers
EmptyInfo(T, modifiers) ==
    Info(T, CASE T = "ParametrizeInfo" -> ParametrizeData(<<>>)
              [] T = "MatrixInfo" -> MatrixValues(<<>>)
              [] T = "RsTestInfo" -> RsTestData(<<>>)
              [] T = "FixtureInfo" -> FixtureData(<<>>),
         modifiers)

\* C7: for each of the four directives, parsing an entirely empty input
\* succeeds and yields the all-default instance: zero items and zero
\* modifiers.
C7_EmptyInputIsDefault ==
    (parser \in InfoParsers /\ input = <<>>)
    => result = Ok(EmptyInfo(parser, Modifiers(<<>>)), <<>>)

\* the empty input has been parsed as a Parametrize directive
C7_Witness ==
    /\ parser = "ParametrizeInfo"
    /\ input = <<>>
    /\ result = Ok(Info("ParametrizeInfo", ParametrizeData(<<>>), Modifiers(<<>>)), <<>>)

\* C8: for the RsTest and Fixture directives, an input that begins directly
\* with `::` parses to an empty item list, and the modifiers are exactly the
\* Modifier Chain parsed from the tokens after that `::` (its error, if
\* those tokens are no chain).
C8_LeadingColonsRsTestFixture ==
    (parser \in {"RsTestInfo", "FixtureInfo"} /\ input # <<>> /\ input[1] = Colon2)
    => IF IsOk(parse_meta("Modifiers", Tail(input), use_proc_macro_diagnostic))
       THEN result =
               Ok(EmptyInfo(parser,
                     parse_meta("Modifiers", Tail(input), use_proc_macro_diagnostic).v),
                  <<>>)
       ELSE result = parse_meta("Modifiers", Tail(input), use_proc_macro_diagnostic)

\* the Fixture directive  :: a(a)  has been parsed: no item, one modifier
C8_Witness ==
    /\ parser = "FixtureInfo"
    /\ input = <<Colon2, Ident("a"), Paren(<<Ident("a")>>)>>
    /\ IsOk(result)
    /\ ItemsOf(result.v) = <<>>
    /\ Len(result.v.modifiers.modifiers) = 1
    /\ result.v.modifiers.modifiers[1].t = "Tagged"

\* C9 as stated: for the Parametrize and Matrix directives too, an input
\* that begins directly with `::` parses successfully to an empty item list
\* with the modifiers taken from the chain after the `::`, the outcome of
\* RsTest and Fixture on the same input.
C9_AsStated ==
    ( /\ parser \in {"ParametrizeInfo", "MatrixInfo"}
      /\ input # <<>>
      /\ input[1] = Colon2
      /\ IsOk(parse_meta("Modifiers", Tail(input), use_proc_macro_diagnostic)) )
    => /\ result =
             Ok(EmptyInfo(parser,
                   parse_meta("Modifiers", Tail(input), use_proc_macro_diagnostic).v),
                <<>>)
       /\ ItemsOf(result.v) =
             ItemsOf(parse_meta("FixtureInfo", input, use_proc_macro_diagnostic).v)
       /\ result.v.modifiers =
             parse_meta("FixtureInfo", input, use_proc_macro_diagnostic).v.modifiers

\* the input is  L :: M  with the `::` at position i: L parses as a
\* directive of at least one item and no modifiers, L does not end with a
\* comma, and M parses as a modifier chain
IsItemsThenChain(i) ==
    /\ parser \in InfoParsers
    /\ i \in 2..Len(input)
    /\ input[i] = Colon2
    /\ input[i - 1] # Comma
    /\ IsOk(parse_meta(parser, SubSeq(input, 1, i - 1), use_proc_macro_diagnostic))
    /\ ItemsOf(parse_meta(parser, SubSeq(input, 1, i - 1),
                          use_proc_macro_diagnostic).v) # <<>>
    /\ parse_meta(parser, SubSeq(input, 1, i - 1),
                  use_proc_macro_diagnostic).v.modifiers.modifiers = <<>>
    /\ IsOk(parse_meta("Modifiers", Rest(input, i), use_proc_macro_diagnostic))

\* C10 as stated: for every item list L and chain M that parse,  L , :: M
\* parses successfully to the same items as  L :: M  and the same modifiers.
C10_AsStated ==
    \A i \in 1..Len(input) :
        IsItemsThenChain(i)
        => /\ IsOk(parse_meta(parser, SubSeq(input, 1, i - 1) \o <<Comma>> \o
                              SubSeq(input, i, Len(input)), use_proc_macro_diagnostic))
           /\ parse_meta(parser, SubSeq(input, 1, i - 1) \o <<Comma>> \o
                         SubSeq(input, i, Len(input)), use_proc_macro_diagnostic)
                 = result

-----------------------------------------------------------------------------
(* A third specification: modifier chains.  The inputs are the chains of   *)
(* up to MaxChain entries, well formed or not, and all short sequences of  *)
(* the tokens a chain is made of.                                          *)

MaxChain == 4

MaxModLen == 3

\* entries of the three shapes, and entries that are none of them: a
\* literal among the tags, a name-value pair, a literal, a nested list
Entries ==
    { <<Ident("a")>>,
      <<Ident("b")>>,
      <<Ident("a"), Paren(<<Ident("a"), Comma, Ident("b")>>)>>,
      <<Ident("b"), Paren(<<>>)>>,
      <<Ident("a"), Lt, Ident("b"), Gt>>,
      <<Ident("b"), Lt, Paren(<<Ident("a"), Comma, Ident("b")>>), Gt>>,
      <<Ident("a"), Paren(<<LitInt("42")>>)>>,
      <<Ident("a"), Eq, LitInt("42")>>,
      <<LitInt("42")>>,
      <<Ident("a"), Paren(<<Ident("a"), Paren(<<Ident("b")>>)>>)>> }

RECURSIVE Join(_, _)

\* the pieces, with the separator between them
Join(pieces, sep) ==
    IF pieces = <<>> THEN <<>>
    ELSE IF Len(pieces) = 1 THEN pieces[1]
    ELSE pieces[1] \o <<sep>> \o Join(Tail(pieces), sep)

ModTokens ==
    { Ident("a"), Ident("b"), LitInt("42"), Colon2, Lt, Gt, Eq, Comma,
      Paren(<<>>), Paren(<<Ident("a"), Comma, Ident("b")>>) }

ChainInputs == {Join(c, Colon2) : c \in SeqsUpTo(Entries, MaxChain)}

InitModifiers ==
    /\ input \in ChainInputs \cup SeqsUpTo(ModTokens, MaxModLen)
    /\ use_proc_macro_diagnostic \in BOOLEAN
    /\ parser = "none"
    /\ result = NoResult

NextModifiers ==
    \/ ParseMetaModifiers
    \/ ParseMetaFixtureInfo

SpecModifiers == InitModifiers /\ [][NextModifiers]_vars

\* the entry is one identifier
IsAttrEntry(e) == Len(e) = 1 /\ IsIdent(e[1])

\* the entry is  ident(i1, ..., im), every ik an identifier
IsTaggedEntry(e) ==
    /\ Len(e) = 2 /\ IsIdent(e[1]) /\ IsParen(e[2])
    /\ \A i \in 1..Len(ListPieces(e[2].s, Comma)) :
          IsNamePiece(ListPieces(e[2].s, Comma)[i])

\* the entry is  ident<Type>, Type one whole type
IsTypeEntry(e) ==
    /\ Len(e) >= 4 /\ IsIdent(e[1]) /\ e[2] = Lt /\ e[Len(e)] = Gt
    /\ TypeLen(SubSeq(e, 3, Len(e) - 1)) = Len(e) - 3

\* the Modifier entry the specification describes for an entry
ExpectedModifier(e) ==
    IF IsAttrEntry(e) THEN Attr(e[1].v)
    ELSE IF IsTaggedEntry(e)
    THEN Tagged(e[1].v, [i \in 1..Len(ListPieces(e[2].s, Comma)) |->
                            ListPieces(e[2].s, Comma)[i][1].v])
    ELSE TypeAttr(e[1].v, TypeV(SubSeq(e, 3, Len(e) - 1)))

\* C6: a chain of k entries separated by `::` yields exactly k Modifier
\* entries in source order, where ident becomes Attr, ident(i1, .., im)
\* becomes Tagged with the inner identifiers in order, and ident<Type>
\* becomes Type; no entry is merged, dropped or overridden by a later one.
C6_ModifierChain ==
    ( /\ parser = "Modifiers"
      /\ input # <<>>
      /\ \A i \in 1..Len(SplitAt(input, Colon2)) :
            \/ IsAttrEntry(SplitAt(input, Colon2)[i])
            \/ IsTaggedEntry(SplitAt(input, Colon2)[i])
            \/ IsTypeEntry(SplitAt(input, Colon2)[i]) )
    => result = Ok(Modifiers([i \in 1..Len(SplitAt(input, Colon2)) |->
                                ExpectedModifier(SplitAt(input, Colon2)[i])]), <<>>)

\* the chain  a :: a(a, b) :: b<(a, b)> :: a(a, b)  has been parsed to its
\* four entries
C6_Witness ==
    /\ parser = "Modifiers"
    /\ input = <<Ident("a"), Colon2,
                 Ident("a"), Paren(<<Ident("a"), Comma, Ident("b")>>), Colon2,
                 Ident("b"), Lt, Paren(<<Ident("a"), Comma, Ident("b")>>), Gt, Colon2,
                 Ident("a"), Paren(<<Ident("a"), Comma, Ident("b")>>)>>
    /\ result = Ok(Modifiers(<<Attr("a"),
                               Tagged("a", <<"a", "b">>),
                               TypeAttr("b", TypeV(<<Paren(<<Ident("a"), Comma,
                                                             Ident("b")>>)>>)),
                               Tagged("a", <<"a", "b">>)>>), <<>>)

-----------------------------------------------------------------------------
(* Empty slots, separators and what follows the item list                  *)

\* the input without its i-th token
Without(ts, i) == SubSeq(ts, 1, i - 1) \o Rest(ts, i)

C12_AsStated ==
    ( /\ parser \in InfoParsers
      /\ IsOk(result)
      /\ \A i \in 1..Len(input) : input[i] # Colon2 )
    => result.v.modifiers.modifiers = <<>>

\* C13: parsing a whole input as a Parametrize item list fails whenever two
\* adjacent items are not separated by a comma: for every input made of an
\* item list that parses and does not end with a comma, directly followed by
\* tokens that start with an item, the list parser stops behind the first
\* item that no comma follows and the unconsumed tokens make the parse an
\* error.
C13_MissingSeparator ==
    \A i \in 1..Len(input) :
        ( /\ parser = "ParametrizeData"
          /\ i < Len(input)
          /\ input[i] # Comma
          /\ IsOk(parse_meta("ParametrizeData", SubSeq(input, 1, i),
                             use_proc_macro_diagnostic))
          /\ IsOk(ParseParametrizeItem(Rest(input, i), use_proc_macro_diagnostic)) )
        => result = Err("unexpected token")

\* the list  a case(42, a)  has been refused
C13_Witness ==
    /\ parser = "ParametrizeData"
    /\ input = <<Ident("a"), Ident("case"), Paren(<<LitInt("42"), Comma, Ident("a")>>)>>
    /\ result = Err("unexpected token")

-----------------------------------------------------------------------------
(* A fourth specification: Parametrize item lists.  The inputs are the     *)
(* lists of up to MaxItems comma-separated pieces, well formed or not; the *)
(* parsers are the item parser on its own (input.parse::<ParametrizeItem>, *)
(* which may leave tokens), the item list and the directive.               *)

MaxItems == 3

\* the pieces between the commas: an empty slot, names, cases, fixtures,
\* groups that hold no expression, two items without a separator, a case
\* with a malformed Unwrap argument, the start of a modifier chain
ItemPieces ==
    { <<>>,
      <<Ident("a")>>,
      <<Ident("case")>>,
      <<Ident("case"), Paren(<<>>)>>,
      <<Ident("case"), Paren(<<LitInt("42"), Comma, Ident("a")>>)>>,
      <<Ident("case"), Colon2, Ident("a"), Paren(<<Ident("a")>>)>>,
      <<Ident("a"), Paren(<<Ident("a")>>)>>,
      <<Ident("a"), Paren(<<FatArrow>>)>>,
      <<Ident("case"), Paren(<<FatArrow>>)>>,
      <<Ident("a"), Ident("case"), Paren(<<>>)>>,
      <<Ident("case"), Paren(<<Ident(UNWRAP_NAME), Paren(<<>>)>>)>>,
      <<Colon2, Ident("a")>> }

ItemInputs == {Join(c, Comma) : c \in SeqsUpTo(ItemPieces, MaxItems)}

InitItems ==
    /\ input \in ItemInputs
    /\ use_proc_macro_diagnostic \in BOOLEAN
    /\ parser = "none"
    /\ result = NoResult

\* input.parse::<ParametrizeItem>() on the token stream: the item, and the
\* tokens behind it
ParseMetaParametrizeItem ==
    /\ parser = "none"
    /\ parser' = "ParametrizeItem"
    /\ result' = ParseParametrizeItem(input, use_proc_macro_diagnostic)
    /\ UNCHANGED <<input, use_proc_macro_diagnostic>>

NextItems ==
    \/ ParseMetaParametrizeItem
    \/ ParseMetaParametrizeData
    \/ ParseMetaParametrizeInfo

SpecItems == InitItems /\ [][NextItems]_vars

\* the values of the items of one variant, in the order of data
ItemsOfVariant(data, variant) ==
    [i \in 1..Len(SelectSeq(data.data, LAMBDA it : it.variant = variant)) |->
        SelectSeq(data.data, LAMBDA it : it.variant = variant)[i].v]

\* ParametrizeData::args with the bug of matching the wrong variant
args_OfFixtures(data) == ItemsOfVariant(data, "Fixture")

\* ParametrizeData::args
args(data) == ItemsOfVariant(data, "CaseArgName")

\* ParametrizeData::cases
cases(data) == ItemsOfVariant(data, "TestCase")

\* ParametrizeData::fixtures
fixtures(data) == ItemsOfVariant(data, "Fixture")

\* every piece of the comma-separated list ts is a name, a case or a fixture
AllItemPieces(ts) ==
    \A i \in 1..Len(ListPieces(ts, Comma)) :
        \/ IsNamePiece(ListPieces(ts, Comma)[i])
        \/ IsCasePiece(ListPieces(ts, Comma)[i])
        \/ IsFixturePiece(ListPieces(ts, Comma)[i])

\* the values of the items the specification describes for the pieces of ts
\* of one kind, in the order of the pieces
ExpectedOfKind(ts, IsKind(_)) ==
    [i \in 1..Len(SelectSeq(ListPieces(ts, Comma), IsKind)) |->
        ExpectedParametrizeItem(SelectSeq(ListPieces(ts, Comma), IsKind)[i]).v]

\* C14: a Parametrize item list accepts argument names, test cases and
\* fixtures interleaved in any order: a non-empty list whose pieces are names,
\* cases and fixtures, in whatever order, parses to exactly the item of each
\* piece in source order, and args(), cases() and fixtures() give the names,
\* the cases and the fixtures of the pieces, each in source order; on every
\* parsed list the three accessors partition data.
C14_AnyOrder ==
    /\ (parser = "ParametrizeData" /\ input # <<>> /\ AllItemPieces(input))
       => /\ result = Ok(ParametrizeData(
                 [i \in 1..Len(ListPieces(input, Comma)) |->
                     ExpectedParametrizeItem(ListPieces(input, Comma)[i])]), <<>>)
          /\ args(result.v) = ExpectedOfKind(input, IsNamePiece)
          /\ cases(result.v) = ExpectedOfKind(input, IsCasePiece)
          /\ fixtures(result.v) = ExpectedOfKind(input, IsFixturePiece)
    /\ (parser = "ParametrizeData" /\ IsOk(result))
       => /\ Len(args(result.v)) + Len(cases(result.v)) + Len(fixtures(result.v))
                = Len(result.v.data)
          /\ \A i \in 1..Len(result.v.data) :
                result.v.data[i].variant \in {"CaseArgName", "TestCase", "Fixture"}

\* the list  a(a), a, case(42, a)  - a fixture, then a name, then a case -
\* has been parsed, and each accessor gives its one item
C14_Witness ==
    /\ parser = "ParametrizeData"
    /\ input = <<Ident("a"), Paren(<<Ident("a")>>), Comma, Ident("a"), Comma,
                 Ident("case"), Paren(<<LitInt("42"), Comma, Ident("a")>>)>>
    /\ IsOk(result)
    /\ Len(result.v.data) = 3
    /\ result.v.data[1].variant = "Fixture"
    /\ args(result.v) = <<IdentV(Ident("a"))>>
    /\ Len(cases(result.v)) = 1
    /\ Len(fixtures(result.v)) = 1

-----------------------------------------------------------------------------
(* The deprecated wrapped form of an argument                              *)

\* the piece is  Unwrap(<string literal>), the literal the sole inner
\* argument
IsSoleLitStr(e) ==
    /\ Len(e) = 2
    /\ IsWrappedShape(e)
    /\ Len(e[2].s) = 1
    /\ e[2].s[1].k = "str"

\* C15 as stated: the wrapped form is chosen only for an argument
\* Unwrap(<string literal>) with the literal as its sole inner argument; any
\* other argument, Unwrap() and Unwrap(x) included, is parsed as an ordinary
\* expression: a case of expressions (the code of a sole string literal an
\* expression too) parses to the Case Node whose i-th argument is the
\* expression of the code for  Unwrap("<code>")  and the i-th expression
\* itself for every other argument.
C15_AsStated ==
    ( /\ parser = "TestCase"
      /\ IsCaseShape(input)
      /\ \A i \in 1..Len(CaseExprs(input)) :
            /\ IsWholeExpr(CaseExprs(input)[i])
            /\ IsSoleLitStr(CaseExprs(input)[i]) => IsWrappedForm(CaseExprs(input)[i]) )
    => result = Ok(TestCase([i \in 1..Len(CaseExprs(input)) |->
                                ArgumentOf(CaseExprs(input)[i])],
                            CaseDescription(input)), <<>>)

\* C16 as stated: the deprecation notice is non-fatal: whenever the parse of
\* a case argument takes the wrapped-form branch (UnwrapRustCode::peek holds
\* at the first argument of the case), the parse does not panic: it returns
\* a value or an error.
C16_AsStated ==
    ( /\ parser = "TestCase"
      /\ IsCaseShape(input)
      /\ UnwrapPeek(input[Len(input)].s) )
    => result.st \in {"ok", "err"}

-----------------------------------------------------------------------------
(* A fifth specification: one modifier entry.  The inputs are the token    *)
(* sequences of up to MaxEntryLen tokens over names, literals, the         *)
(* punctuation of entries and groups of tags, well formed or not; the      *)
(* parsers are the entry parser on its own (input.parse::<RsTestAttribute>,*)
(* which may leave tokens) and the modifier chain.                         *)

MaxEntryLen == 3

EntryTokens ==
    { Ident("a"), LitInt("42"), Eq, Lt, Gt, Colon2, Comma,
      Paren(<<>>),
      Paren(<<Ident("a")>>),
      Paren(<<LitInt("42")>>),
      Paren(<<Ident("a"), Comma, LitInt("42")>>),
      Paren(<<Ident("a"), Paren(<<Ident("a")>>)>>),
      Paren(<<Ident("a"), Eq, LitInt("42")>>),
      Paren(<<Ident("a"), Comma, Ident("a"), Paren(<<Ident("a")>>)>>),
      Paren(<<Ident("a"), Paren(<<Ident("a")>>), Comma, LitInt("42")>>) }

InitEntry ==
    /\ input \in SeqsUpTo(EntryTokens, MaxEntryLen)
    /\ use_proc_macro_diagnostic \in BOOLEAN
    /\ parser = "none"
    /\ result = NoResult

\* input.parse::<RsTestAttribute>() on the token stream: the entry, and the
\* tokens behind it
ParseMetaRsTestAttribute ==
    /\ parser = "none"
    /\ parser' = "RsTestAttribute"
    /\ result' = ParseRsTestAttribute(input)
    /\ UNCHANGED <<input, use_proc_macro_diagnostic>>

NextEntry ==
    \/ ParseMetaRsTestAttribute
    \/ ParseMetaModifiers

SpecEntry == InitEntry /\ [][NextEntry]_vars

\* the piece is one literal
IsLiteralPiece(e) == Len(e) = 1 /\ IsLit(e[1])

\* the piece is  name = literal
IsNameValuePiece(e) == Len(e) = 3 /\ IsIdent(e[1]) /\ e[2] = Eq /\ IsLit(e[3])

\* the piece is  name ( meta items )
IsListPiece(e) ==
    Len(e) = 2 /\ IsIdent(e[1]) /\ IsParen(e[2]) /\ IsOk(ParseNestedList(e[2].s))

\* the pieces of the group of tags of the entry  name ( ... )
TagPieces(ts) == ListPieces(ts[2].s, Comma)

\* C17: when the second token is not <, a modifier entry of shape
\* name = value fails with "Invalid attribute", a literal in place of the
\* entry fails with "Unexpected literal", and a Tagged group with an inner
\* item that is not a bare identifier fails - with "Unexpected literal" when
\* a literal is among inner items that are names, literals, nested lists and
\* name-value pairs, with "Should be an ident" when none is a literal; the
\* entry parser and the chain parser alike yield no entry for such input.
C17_EntryRejection ==
    parser \in {"RsTestAttribute", "Modifiers"}
    => /\ (Len(input) >= 3 /\ IsNameValuePiece(SubSeq(input, 1, 3)))
          => result = Err("Invalid attribute")
       /\ (input # <<>> /\ IsLit(input[1]) /\ ~(Len(input) >= 2 /\ input[2] = Lt))
          => result = Err("Unexpected literal")
       /\ (Len(input) >= 2 /\ IsIdent(input[1]) /\ IsParen(input[2]))
          => /\ (\E i \in 1..Len(TagPieces(input)) : ~IsNamePiece(TagPieces(input)[i]))
                => result.st = "err"
             /\ ( /\ \E i \in 1..Len(TagPieces(input)) :
                        ~IsNamePiece(TagPieces(input)[i])
                  /\ \A i \in 1..Len(TagPieces(input)) :
                        \/ IsNamePiece(TagPieces(input)[i])
                        \/ IsLiteralPiece(TagPieces(input)[i])
                        \/ IsListPiece(TagPieces(input)[i])
                        \/ IsNameValuePiece(TagPieces(input)[i]) )
                => result =
                      IF \E i \in 1..Len(TagPieces(input)) :
                            IsLiteralPiece(TagPieces(input)[i])
                      THEN Err("Unexpected literal")
                      ELSE Err("Should be an ident")

\* the entry  a(a, a(a))  , a nested list among its tags, has been rejected
C17_Witness ==
    /\ parser = "RsTestAttribute"
    /\ input = <<Ident("a"),
                 Paren(<<Ident("a"), Comma, Ident("a"), Paren(<<Ident("a")>>)>>)>>
    /\ result = Err("Should be an ident")

-----------------------------------------------------------------------------
(* The keyword of a test case, and the classification of Parametrize items *)

\* C18: TestCase parse fails with the error "expected a test case" whenever
\* the leading identifier is not case, whatever the tokens that follow it,
\* and produces no Case Node.
C18_ExpectedATestCase ==
    (parser = "TestCase" /\ input # <<>> /\ IsIdent(input[1])
        /\ input[1] # Ident("case"))
    => result = Err("expected a test case")

\* a(42, a), well formed but for the keyword, has been rejected
C18_Witness ==
    /\ parser = "TestCase"
    /\ input = <<Ident("a"), Paren(<<LitInt("42"), Comma, Ident("a")>>)>>
    /\ result = Err("expected a test case")

\* the first n tokens of ts are a case: case (E1, ..., En) or
\* case :: D (E1, ..., En), every Ei an expression, of the direct form or
\* the wrapped form
IsCaseAt(ts, n) ==
    /\ n <= Len(ts)
    /\ IsCaseShape(SubSeq(ts, 1, n))
    /\ \A i \in 1..Len(CaseExprs(SubSeq(ts, 1, n))) :
          /\ IsWholeExpr(CaseExprs(SubSeq(ts, 1, n))[i])
          /\ IsWrappedShape(CaseExprs(SubSeq(ts, 1, n))[i])
                => IsWrappedForm(CaseExprs(SubSeq(ts, 1, n))[i])

\* the first two tokens of ts are a fixture: name (E1, ..., En), every Ei
\* an expression
IsFixtureAt(ts) ==
    /\ Len(ts) >= 2 /\ IsIdent(ts[1]) /\ IsParen(ts[2])
    /\ \A i \in 1..Len(ListPieces(ts[2].s, Comma)) :
          IsWholeExpr(ListPieces(ts[2].s, Comma)[i])

\* the Case Node of the first n tokens of ts
CaseAt(ts, n) ==
    TestCase([i \in 1..Len(CaseExprs(SubSeq(ts, 1, n))) |->
                 ArgumentOf(CaseExprs(SubSeq(ts, 1, n))[i])],
             CaseDescription(SubSeq(ts, 1, n)))

\* what the specification describes for the item at the head of ts: the
\* first of Case, Fixture, Identifier that is there, with the tokens behind
\* it, or the generic error
ExpectedItemAt(ts) ==
    IF IsCaseAt(ts, 2)
    THEN Ok(Item("ParametrizeItem", "TestCase", CaseAt(ts, 2)), Rest(ts, 2))
    ELSE IF IsCaseAt(ts, 4)
    THEN Ok(Item("ParametrizeItem", "TestCase", CaseAt(ts, 4)), Rest(ts, 4))
    ELSE IF IsFixtureAt(ts)
    THEN Ok(Item("ParametrizeItem", "Fixture",
                 Fixture(ts[1].v, [i \in 1..Len(ListPieces(ts[2].s, Comma)) |->
                                      ExprV(ListPieces(ts[2].s, Comma)[i])])),
            Rest(ts, 2))
    ELSE IF ts # <<>> /\ IsIdent(ts[1])
    THEN Ok(Item("ParametrizeItem", "CaseArgName", IdentV(ts[1])), Tail(ts))
    ELSE Err("Cannot parse parametrize info")

IsUnparsableGroupPiece(e) ==
    /\ Len(e) = 2 /\ IsIdent(e[1]) /\ IsParen(e[2])
    /\ \E i \in 1..Len(ListPieces(e[2].s, Comma)) :
          ~IsWholeExpr(ListPieces(e[2].s, Comma)[i])
    /\ \A i \in 1..Len(ListPieces(e[2].s, Comma)) :
          ~IsWrappedShape(ListPieces(e[2].s, Comma)[i])

-----------------------------------------------------------------------------
(* A sixth specification: one Tagged group.  The inputs are the entries    *)
(* tag(i1, ..., in) of up to MaxTags inner items, each a name, a literal,  *)
(* a nested list or a name-value pair, in every order; the parsers are the *)
(* entry parser and the modifier chain.                                    *)

MaxTags == 3

TagItems ==
    { <<Ident("a")>>,
      <<Ident("b")>>,
      <<LitInt("42")>>,
      <<LitStr(<<Ident("x")>>)>>,
      <<Ident("a"), Paren(<<Ident("b")>>)>>,
      <<Ident("a"), Eq, LitInt("42")>> }

TaggedInputs ==
    {<<Ident("tag"), Paren(Join(c, Comma))>> : c \in SeqsUpTo(TagItems, MaxTags)}

InitTagged ==
    /\ input \in TaggedInputs
    /\ use_proc_macro_diagnostic \in BOOLEAN
    /\ parser = "none"
    /\ result = NoResult

NextTagged ==
    \/ ParseMetaRsTestAttribute
    \/ ParseMetaModifiers

SpecTagged == InitTagged /\ [][NextTagged]_vars

\* the error the specification names for an inner item that is no bare
\* identifier
ErrorOfTagPiece(e) ==
    IF IsLiteralPiece(e) THEN Err("Unexpected literal") ELSE Err("Should be an ident")

\* the position of the leftmost inner item of the group that is no bare
\* identifier
LeftmostInvalid(ts) ==
    CHOOSE i \in 1..Len(TagPieces(ts)) :
        /\ ~IsNamePiece(TagPieces(ts)[i])
        /\ \A j \in 1..(i - 1) : IsNamePiece(TagPieces(ts)[j])

\* input is  tag ( ... )  with at least two inner items that are no bare
\* identifiers
HasSeveralInvalid(ts) ==
    /\ Len(ts) = 2 /\ IsIdent(ts[1]) /\ IsParen(ts[2])
    /\ \E i, j \in 1..Len(TagPieces(ts)) :
          i # j /\ ~IsNamePiece(TagPieces(ts)[i]) /\ ~IsNamePiece(TagPieces(ts)[j])

\* C21 as stated: when a Tagged group contains several invalid inner items,
\* the error returned is the one for the leftmost invalid item in source
\* order.
C21_AsStated ==
    (parser \in {"RsTestAttribute", "Modifiers"} /\ HasSeveralInvalid(input))
    => result = ErrorOfTagPiece(TagPieces(input)[LeftmostInvalid(input)])

\* C21, amended: when a Tagged group contains several invalid inner items,
\* the error returned is "Unexpected literal" whenever a literal is among
\* them, wherever it stands - also behind a nested list or a name-value
\* pair - and "Should be an ident" only when none of the inner items is a
\* literal: the items are checked for literals first, all of them, and for
\* bare identifiers after that.
C21_LiteralsFirst ==
    (parser \in {"RsTestAttribute", "Modifiers"} /\ HasSeveralInvalid(input))
    => result =
          IF \E i \in 1..Len(TagPieces(input)) : IsLiteralPiece(TagPieces(input)[i])
          THEN Err("Unexpected literal")
          ELSE Err("Should be an ident")

\* the entry  tag(a(b), "x")  has been rejected with the error of the
\* literal, the second of its two invalid items
C21_Witness ==
    /\ parser = "RsTestAttribute"
    /\ input = <<Ident("tag"),
                 Paren(<<Ident("a"), Paren(<<Ident("b")>>), Comma,
                         LitStr(<<Ident("x")>>)>>)>>
    /\ result = Err("Unexpected literal")

====
